---- MODULE Spec2Model ----
(***************************************************************************)
(* PitchComm: the T-Deck transmitter's selection state machine and the     *)
(* receivers' (T-Watch, Heltec, Heltec Stick, XIAO) receive loop and       *)
(* drawSignal decode/priority rules.                                       *)
(*                                                                         *)
(*   Spec         the T-Deck transmitter: setup() then taps on the UI      *)
(*   SpecToggle   the transmitter with taps on every selection button      *)
(*   SpecRx       one receiver: setup(), the radio interrupt, loop()       *)
(*   SpecDevices  any one device: the transmitter or a receiver            *)
(*   SpecDraw     drawSignal applied to every sampled record value         *)
(***************************************************************************)
EXTENDS Integers, Sequences, FiniteSets, TLC

VARIABLES
  \* ---- T-Deck transmitter --------------------------------------------
  state,          \* the anonymous struct `state` (selection, counters)
  currentSignal,  \* PitchSignal currentSignal
  loraReady,      \* bool loraReady (transmitter)
  txpc,           \* "setup" before setup() has run, "loop" afterwards
  txFrames,       \* records handed to radio.transmit by the last tap
  txSerial,       \* "[LoRa] ..." lines printed by the last tap
  txSession,      \* numbers of the Pitch records handed to radio.transmit
                  \* since startup or the latest tap on RESET
  \* ---- receiver -------------------------------------------------------
  variant,        \* which receiver firmware this device runs
  rxReady,        \* bool loraReady (receiver)
  receivedFlag,   \* volatile bool receivedFlag
  lastSignal,     \* PitchSignal lastSignal
  lastReceived,   \* unsigned long lastReceived, in units of 4 ms
  millis,         \* the clock read by millis(), in units of 4 ms
  pc,             \* position of the receiver's main cycle
  radioMode,      \* "standby" or "rx": is the SX1262 listening
  rxBuf,          \* what the radio holds for the next readData
  rxState,        \* loop()'s local `state`: the result of the last readData
  display,        \* what the display currently shows
  haptic,         \* vibration pattern played by the last drawSignal
  needRearm,      \* a notification was consumed, startReceive not yet called
  sinceDecode     \* millis() at the latest drawSignal that the idle timer
                  \* has not yet answered with drawWaiting, -1 if none

txVars == <<state, currentSignal, loraReady, txpc, txFrames, txSerial,
            txSession>>
rxVars == <<variant, rxReady, receivedFlag, lastSignal, lastReceived, millis,
            pc, radioMode, rxBuf, rxState, display, haptic, needRearm,
            sinceDecode>>
vars == <<state, currentSignal, loraReady, txpc, txFrames, txSerial,
          txSession,
          variant, rxReady, receivedFlag, lastSignal, lastReceived, millis,
          pc, radioMode, rxBuf, rxState, display, haptic, needRearm,
          sinceDecode>>

----------------------------------------------------------------------------
(* Bounds *)

\* taps on SEND are allowed while state.signalCount is below this
MaxSends == 2

\* loop() cycles are allowed while millis() is below MaxTicks * TickMs
MaxTicks == 5

\* passes through loop() that one modelled cycle stands for
QuietCycles == 1000

\* modelled cycles between the end of a long quiet stretch and the instant
\* at which millis() wraps around to 0
WrapTicks == 2

\* byte values sampled for drawSignal: 0..Max<Field>Byte and a few large ones
MaxTypeByte == 2
MaxPitchByte == 5
MaxZoneByte == 10
MaxPickoffByte == 3
MaxThirdByte == 5

(* Widths and program constants *)

U16 == 65536
\* The 32-bit millisecond clock is held in units of 4 ms, so that its
\* wrap-around at 2^32 ms is the wrap-around of the model's clock at 2^30
ToClock(ms) == ms \div 4
ClockWrap == 2^30
\* "millis() - lastReceived > 30000"
IdleMs == 30000
\* the delay(2000) that ends every receiver's setup()
SetupDelayMs == 2000
\* the delay(10) that ends every pass through a receiver's loop()
LoopDelayMs == 10
\* time that passes per modelled cycle of a receiver's loop(): the cycle
\* shown and the QuietCycles - 1 passes after it in which nothing is pending
TickMs == QuietCycles * LoopDelayMs
\* the reading of millis() WrapTicks modelled cycles before it wraps
NearWrap == ClockWrap - WrapTicks * ToClock(TickMs)
PITCH_NONE == 255
FB == 0
CB == 1
CH == 2
SL == 3
PO == 4

----------------------------------------------------------------------------
(* T-Deck transmitter: data *)

\* PitchSignal currentSignal: a global, zero-initialised
ZeroSignal ==
  [type |-> 0, pitch |-> 0, zone |-> 0, pickoff |-> 0, thirdSign |-> 0,
   number |-> 0]

\* sizeof(PitchSignal): five bytes, one byte of padding in front of the
\* two-byte aligned uint16_t number
RecordSize == 8

\* the bytes of a PitchSignal as "(uint8_t*)&currentSignal" hands them to
\* radio.transmit: the fields in declaration order, number low byte first
StructBytes(sig) ==
  << sig.type, sig.pitch, sig.zone, sig.pickoff, sig.thirdSign, 0,
     sig.number % 256, sig.number \div 256 >>

\* the PitchSignal that RecordSize bytes at "(uint8_t*)&lastSignal" are
StructOf(b) ==
  [type |-> b[1], pitch |-> b[2], zone |-> b[3], pickoff |-> b[4],
   thirdSign |-> b[5], number |-> b[7] + 256 * b[8]]

\* the initialisers of struct state
InitState ==
  [pitch |-> PITCH_NONE, zone |-> 0, pickoff |-> 0, thirdSign |-> 0,
   counts |-> [i \in 0..3 |-> 0], signalCount |-> 0, lastPitch |-> PITCH_NONE]

\* Button geometry {x, y, w, h}
pitchBtns ==
  << [x |-> 5, y |-> 52,  w |-> 75, h |-> 32],
     [x |-> 5, y |-> 87,  w |-> 75, h |-> 32],
     [x |-> 5, y |-> 122, w |-> 75, h |-> 32],
     [x |-> 5, y |-> 157, w |-> 75, h |-> 32] >>

pickoffBtns ==
  << [x |-> 205, y |-> 52, w |-> 36, h |-> 38],
     [x |-> 245, y |-> 52, w |-> 36, h |-> 38],
     [x |-> 285, y |-> 52, w |-> 36, h |-> 38] >>

thirdBtns ==
  << [x |-> 205, y |-> 95,  w |-> 57, h |-> 48],
     [x |-> 265, y |-> 95,  w |-> 57, h |-> 48],
     [x |-> 205, y |-> 146, w |-> 57, h |-> 48],
     [x |-> 265, y |-> 146, w |-> 57, h |-> 48] >>

\* "Button undoBtn": declared, never drawn and never tested by handleTouch
undoBtn == [x |-> 5, y |-> 195, w |-> 75, h |-> 35]

\* initZoneButtons: idx = row*3 + col, startX 85, startY 52, cell 38x46, gap 3
zoneBtns ==
  [k \in 1..9 |->
     LET idx == k - 1
         row == idx \div 3
         col == idx % 3
     IN [x |-> 85 + col * (38 + 3), y |-> 52 + row * (46 + 3),
         w |-> 38, h |-> 46]]

inButton(btn, x, y) ==
  x >= btn.x /\ x < btn.x + btn.w /\ y >= btn.y /\ y < btn.y + btn.h

\* the index i (0-based) at which a `for ... if (inButton) { ...; break; }`
\* loop over btns stops, or -1 when no button is hit
HitIndex(btns, x, y) ==
  LET hits == {i \in DOMAIN btns : inButton(btns[i], x, y)}
  IN IF hits = {} THEN -1
     ELSE (CHOOSE i \in hits : \A j \in hits : i <= j) - 1

inSend(x, y) == y >= 206 /\ y <= 236 /\ x >= 5 /\ x <= 157
inReset(x, y) == y >= 206 /\ y <= 236 /\ x >= 163 /\ x <= 315

----------------------------------------------------------------------------
(* T-Deck transmitter: operations *)

\* setupLoRa(): loraReady is the outcome of radio.begin(915.0)
TxSetupLoRa(beginOk) == beginOk

\* setupLoRa(): the LoRa parameters every device sets after radio.begin
SpreadingFactor == 10
BandwidthKHz == 125
CodingRate == 8
PreambleLength == 8

\* duration of one LoRa symbol in microseconds: 2^SF / bandwidth
SymbolUs == (2 ^ SpreadingFactor * 1000) \div BandwidthKHz

CeilDiv(a, b) == (a + b - 1) \div b

\* symbols of the header and payload of a frame of len bytes, as the SX1262
\* sends it after radio.begin: explicit header, 16-bit CRC, coding rate
\* 4/CodingRate
PayloadSymbols(len) ==
  LET bits == 8 * len + 16 - 4 * SpreadingFactor + 8 + 20
  IN 8 + CeilDiv(IF bits > 0 THEN bits ELSE 0, 4 * SpreadingFactor)
           * CodingRate

\* microseconds radio.transmit keeps the frame on the air: the preamble of
\* PreambleLength + 4.25 symbols, then header and payload
TimeOnAirUs(len) ==
  ((4 * PreambleLength + 17 + 4 * PayloadSymbols(len)) * SymbolUs) \div 4

\* sendSignal that sends pitch byte 0 when no pitch is selected
sendSignal_noSentinel(st, cur, ready, txOk) ==
  IF ~ready
    THEN [cur |-> cur, frames |-> <<>>, serial |-> <<>>]
    ELSE LET sig == [type      |-> 0,
                     pitch     |-> IF st.pitch = PITCH_NONE THEN 0
                                   ELSE st.pitch,
                     zone      |-> st.zone,
                     pickoff   |-> st.pickoff,
                     thirdSign |-> st.thirdSign,
                     number    |-> st.signalCount]
         IN [cur    |-> sig,
             frames |-> << [frame |-> sig, ok |-> txOk] >>,
             serial |-> IF txOk THEN << "Signal sent successfully" >>
                        ELSE << "Transmit failed" >>]

\* sendSignal that leaves currentSignal.number as it was
sendSignal_staleNumber(st, cur, ready, txOk) ==
  IF ~ready
    THEN [cur |-> cur, frames |-> <<>>, serial |-> <<>>]
    ELSE LET sig == [type      |-> 0,
                     pitch     |-> IF st.pitch = PITCH_NONE THEN 255
                                   ELSE st.pitch,
                     zone      |-> st.zone,
                     pickoff   |-> st.pickoff,
                     thirdSign |-> st.thirdSign,
                     number    |-> cur.number]
         IN [cur    |-> sig,
             frames |-> << [frame |-> sig, ok |-> txOk] >>,
             serial |-> IF txOk THEN << "Signal sent successfully" >>
                        ELSE << "Transmit failed" >>]

\* sendSignal(): returns the new currentSignal, the records handed to
\* radio.transmit (with the radio's verdict) and the lines printed
sendSignal(st, cur, ready, txOk) ==
  IF ~ready
    THEN [cur |-> cur, frames |-> <<>>, serial |-> <<>>]
    ELSE LET sig == [type      |-> 0,
                     pitch     |-> IF st.pitch = PITCH_NONE THEN 255
                                   ELSE st.pitch,
                     zone      |-> st.zone,
                     pickoff   |-> st.pickoff,
                     thirdSign |-> st.thirdSign,
                     number    |-> st.signalCount]
         IN [cur    |-> sig,
             frames |-> << [frame |-> sig, ok |-> txOk] >>,
             serial |-> IF txOk THEN << "Signal sent successfully" >>
                        ELSE << "Transmit failed" >>]

\* sendReset without "if (!loraReady) return;"
sendReset_noReadyCheck(cur, ready, txOk) ==
  LET sig == [cur EXCEPT !.type = 1]
  IN [cur    |-> sig,
      frames |-> << [frame |-> sig, ok |-> txOk] >>,
      serial |-> << "Reset sent" >>]

\* sendReset(): only the type byte of currentSignal is written
sendReset(cur, ready, txOk) ==
  IF ~ready
    THEN [cur |-> cur, frames |-> <<>>, serial |-> <<>>]
    ELSE LET sig == [cur EXCEPT !.type = 1]
         IN [cur    |-> sig,
             frames |-> << [frame |-> sig, ok |-> txOk] >>,
             serial |-> << "Reset sent" >>]

\* TogglePitch that also drops the pickoff and the third sign when a pitch
\* is picked
TogglePitch_exclusive(st, x, y) ==
  LET i == HitIndex(pitchBtns, x, y)
  IN IF i >= 0
       THEN IF st.pitch = i THEN [st EXCEPT !.pitch = PITCH_NONE]
            ELSE [st EXCEPT !.pitch = i, !.pickoff = 0, !.thirdSign = 0]
       ELSE st

\* TogglePitch that stores i + 1, as the zone, pickoff and third sign loops
\* do
TogglePitch_oneBased(st, x, y) ==
  LET i == HitIndex(pitchBtns, x, y)
  IN IF i >= 0
       THEN [st EXCEPT !.pitch = IF st.pitch = i + 1 THEN PITCH_NONE
                                 ELSE i + 1]
       ELSE st

\* handleTouch, "Pitch buttons (FB, CB, CH, SL)"
TogglePitch(st, x, y) ==
  LET i == HitIndex(pitchBtns, x, y)
  IN IF i >= 0
       THEN [st EXCEPT !.pitch = IF st.pitch = i THEN PITCH_NONE ELSE i]
       ELSE st

\* ToggleZone that moves on to the next zone when the zone is tapped again
ToggleZone_cycle(st, x, y) ==
  LET i == HitIndex(zoneBtns, x, y)
  IN IF i >= 0
       THEN [st EXCEPT !.zone = IF st.zone = i + 1 THEN ((i + 1) % 9) + 1
                                ELSE i + 1]
       ELSE st

\* handleTouch, "Zone buttons"
ToggleZone(st, x, y) ==
  LET i == HitIndex(zoneBtns, x, y)
  IN IF i >= 0
       THEN [st EXCEPT !.zone = IF st.zone = i + 1 THEN 0 ELSE i + 1]
       ELSE st

\* TogglePickoff without the test for the value already selected
TogglePickoff_setOnly(st, x, y) ==
  LET i == HitIndex(pickoffBtns, x, y)
  IN IF i >= 0
       THEN [st EXCEPT !.pickoff = i + 1]
       ELSE st

\* handleTouch, "Pickoff buttons"
TogglePickoff(st, x, y) ==
  LET i == HitIndex(pickoffBtns, x, y)
  IN IF i >= 0
       THEN [st EXCEPT !.pickoff = IF st.pickoff = i + 1 THEN 0 ELSE i + 1]
       ELSE st

\* handleTouch, "1/3 Sign buttons"
ToggleThird(st, x, y) ==
  LET i == HitIndex(thirdBtns, x, y)
  IN IF i >= 0
       THEN [st EXCEPT !.thirdSign = IF st.thirdSign = i + 1 THEN 0 ELSE i + 1]
       ELSE st

\* SendCount with the send count advanced only inside the pitch test
SendCount_countOnlyPitches(st) ==
  LET s1 == [st EXCEPT !.lastPitch = st.pitch]
  IN IF s1.pitch # PITCH_NONE /\ s1.pitch # PO
       THEN [s1 EXCEPT !.counts[s1.pitch] = (@ + 1) % U16,
                       !.signalCount = (@ + 1) % U16]
       ELSE s1

\* handleTouch, Send button: "Save for undo", "Increment counter"
SendCount(st) ==
  LET s1 == [st EXCEPT !.lastPitch = st.pitch]
      s2 == IF s1.pitch # PITCH_NONE /\ s1.pitch # PO
              THEN [s1 EXCEPT !.counts[s1.pitch] = (@ + 1) % U16]
              ELSE s1
  IN [s2 EXCEPT !.signalCount = (@ + 1) % U16]

\* the four selection fields of struct state
Selection(st) ==
  [pitch |-> st.pitch, zone |-> st.zone, pickoff |-> st.pickoff,
   thirdSign |-> st.thirdSign]

\* the selection that struct state keeps for undo: lastPitch; the struct
\* has no field that keeps a zone, a pickoff or a third sign
UndoSnapshot(st) ==
  [pitch |-> st.lastPitch, zone |-> 0, pickoff |-> 0, thirdSign |-> 0]

\* handleTouch, Send button: "Clear selection"
ClearSelection(st) ==
  [st EXCEPT !.pitch = PITCH_NONE, !.zone = 0, !.pickoff = 0, !.thirdSign = 0]

\* ResetState without the loop that zeroes the counters
ResetState_keepCounts(st) ==
  [st EXCEPT !.pitch = PITCH_NONE, !.zone = 0, !.pickoff = 0, !.thirdSign = 0,
             !.signalCount = 0]

\* ResetState without "state.signalCount = 0;"
ResetState_keepSendCount(st) ==
  [st EXCEPT !.pitch = PITCH_NONE, !.zone = 0, !.pickoff = 0, !.thirdSign = 0,
             !.counts = [i \in 0..3 |-> 0]]

\* handleTouch, Reset button: the assignments before sendReset()
ResetState(st) ==
  [st EXCEPT !.pitch = PITCH_NONE, !.zone = 0, !.pickoff = 0, !.thirdSign = 0,
             !.counts = [i \in 0..3 |-> 0], !.signalCount = 0]

\* SendBlock that clears the selection only when the transmit succeeded
SendBlock_keepOnFailure(st, cur, ready, txOk) ==
  LET s1 == SendCount(st)
      o  == sendSignal(s1, cur, ready, txOk)
  IN [state  |-> IF txOk THEN ClearSelection(s1) ELSE s1,
      cur    |-> o.cur,
      frames |-> o.frames,
      serial |-> o.serial]

\* SendBlock that calls sendSignal() before the bookkeeping
SendBlock_sendBeforeCount(st, cur, ready, txOk) ==
  LET o  == sendSignal(st, cur, ready, txOk)
      s1 == SendCount(st)
  IN [state  |-> ClearSelection(s1),
      cur    |-> o.cur,
      frames |-> o.frames,
      serial |-> o.serial]

\* SendBlock that leaves the counters alone when the radio is not ready
SendBlock_countOnlyWhenReady(st, cur, ready, txOk) ==
  LET s1 == IF ready THEN SendCount(st) ELSE st
      o  == sendSignal(s1, cur, ready, txOk)
  IN [state  |-> ClearSelection(s1),
      cur    |-> o.cur,
      frames |-> o.frames,
      serial |-> o.serial]

\* handleTouch, the whole Send block: bookkeeping, sendSignal(), clear
SendBlock(st, cur, ready, txOk) ==
  LET s1 == SendCount(st)
      o  == sendSignal(s1, cur, ready, txOk)
  IN [state  |-> ClearSelection(s1),
      cur    |-> o.cur,
      frames |-> o.frames,
      serial |-> o.serial]

\* handleTouch, the whole Reset block: clear and zero, then sendReset()
ResetBlock(st, cur, ready, txOk) ==
  LET s1 == ResetState(st)
      o  == sendReset(cur, ready, txOk)
  IN [state  |-> s1,
      cur    |-> o.cur,
      frames |-> o.frames,
      serial |-> o.serial]

\* handleTouch(x, y) as a function of the state before the tap: the four
\* button loops, then the Send block, then the Reset block, in source order
TouchResult(st, cur, ready, x, y, sendOk, resetOk) ==
  LET s1 == TogglePitch(st, x, y)
      s2 == ToggleZone(s1, x, y)
      s3 == TogglePickoff(s2, x, y)
      s4 == ToggleThird(s3, x, y)
      r0 == [state |-> s4, cur |-> cur, frames |-> <<>>, serial |-> <<>>]
      r1 == IF inSend(x, y)
              THEN SendBlock(r0.state, r0.cur, ready, sendOk)
              ELSE r0
      r2 == IF inReset(x, y)
              THEN ResetBlock(r1.state, r1.cur, ready, resetOk)
              ELSE [r1 EXCEPT !.frames = <<>>, !.serial = <<>>]
  IN [state  |-> r2.state,
      cur    |-> r2.cur,
      frames |-> r1.frames \o r2.frames,
      serial |-> r1.serial \o r2.serial]

\* Points tapped on the 320x240 touch panel: FB, SL, zone 5, PK2, 3c, SEND,
\* RESET, and the gap between SEND and RESET
TouchPoints ==
  { <<40, 60>>, <<40, 170>>, <<140, 120>>, <<260, 70>>, <<230, 170>>,
    <<80, 220>>, <<240, 220>>, <<160, 220>> }

\* Points inside a button: its first pixel and its centre
ButtonTaps(btn) ==
  { << btn.x, btn.y >>, << btn.x + btn.w \div 2, btn.y + btn.h \div 2 >> }

\* Taps on the button of pitch i (FB..SL), zone k, pickoff k, third sign k
PitchTaps(i) == ButtonTaps(pitchBtns[i + 1])
ZoneTaps(k) == ButtonTaps(zoneBtns[k])
PickoffTaps(k) == ButtonTaps(pickoffBtns[k])
ThirdTaps(k) == ButtonTaps(thirdBtns[k])

\* Taps on every one of the twenty selection buttons
ButtonPoints ==
  UNION ( {PitchTaps(i) : i \in 0..3} \cup {ZoneTaps(k) : k \in 1..9}
          \cup {PickoffTaps(k) : k \in 1..3} \cup {ThirdTaps(k) : k \in 1..4} )

----------------------------------------------------------------------------
(* Receivers: drawSignal *)

Variants == {"TWatch", "Heltec", "Stick", "XIAO"}

pitchNames == << "FB", "CB", "CH", "SL", "PO" >>
thirdNames == << "", "3A", "3B", "3C", "3D" >>

NoHaptic == << 0, 0, 0 >>
\* vibratePattern(count, onTime, offTime)
vibratePattern(count, onTime, offTime) == << count, onTime, offTime >>
vibrateShort == << 1, 50, 0 >>
vibrateLong == << 1, 200, 0 >>

vibrateForPitch(pitch) ==
  CASE pitch = 0 -> vibrateShort
    [] pitch = 1 -> vibratePattern(2, 50, 100)
    [] pitch = 2 -> vibratePattern(3, 50, 100)
    [] pitch = 3 -> vibrateLong
    [] pitch = 4 -> vibratePattern(2, 150, 100)
    [] OTHER     -> vibrateShort

vibrateForPickoff == vibratePattern(3, 80, 80)
vibrateForThirdSign == vibratePattern(2, 200, 150)

\* number of decimal digits of a value that fits 16 bits
Digits(n) ==
  IF n < 10 THEN 1 ELSE IF n < 100 THEN 2 ELSE IF n < 1000 THEN 3
  ELSE IF n < 10000 THEN 4 ELSE 5

\* snprintf(buf, size, "<prefix>%d", n) keeps size-1 characters: the value
\* whose digits remain when only k digits of n fit
RECURSIVE FirstDigits(_, _)
FirstDigits(n, k) ==
  IF Digits(n) <= k THEN n ELSE FirstDigits(n \div 10, k)

\* A render: the branch of drawSignal taken (the render intent), the items
\* drawn as <<kind, value>> pairs, and the vibration pattern played
Render(intent, drawn, hap) ==
  [intent |-> intent, drawn |-> drawn, haptic |-> hap]

\* T-Watch drawSignal
drawSignal_TWatch(sig) ==
  LET hasPitch == sig.pitch < 5
      num == { << "number", sig.number >> }
  IN IF sig.type = 1
       THEN Render("ShowReset", { << "text", "RESET" >> }, NoHaptic)
     ELSE IF sig.pickoff > 0 /\ ~hasPitch
       THEN Render("ShowPickoffOnly",
                   { << "pickoff", sig.pickoff >> } \cup num,
                   vibrateForPickoff)
     ELSE IF sig.thirdSign > 0 /\ ~hasPitch
       THEN Render("ShowThirdSignOnly",
                   { << "third", IF sig.thirdSign <= 4
                                   THEN thirdNames[sig.thirdSign + 1]
                                   ELSE "3?" >> } \cup num,
                   vibrateForThirdSign)
     ELSE Render("ShowPitch",
                 (IF hasPitch
                    THEN { << "pitch", pitchNames[sig.pitch + 1] >> } ELSE {})
                 \cup (IF sig.zone > 0 /\ sig.zone <= 9
                         THEN { << "zone", sig.zone >> } ELSE {})
                 \cup (IF sig.pickoff > 0
                         THEN { << "pickoff", sig.pickoff >> } ELSE {})
                 \cup (IF sig.thirdSign > 0 /\ sig.thirdSign <= 4
                         THEN { << "third", thirdNames[sig.thirdSign + 1] >> }
                         ELSE {})
                 \cup num,
                 IF hasPitch THEN vibrateForPitch(sig.pitch) ELSE NoHaptic)

\* Heltec (128x64 OLED) drawSignal
drawSignal_Heltec(sig) ==
  LET hasPitch == sig.pitch < 5
      num == { << "number", sig.number >> }
  IN IF sig.type = 1
       THEN Render("ShowReset", { << "text", "RESET" >> } \cup num, NoHaptic)
     ELSE IF sig.pickoff > 0 /\ ~hasPitch
       THEN Render("ShowPickoffOnly",
                   { << "pickoff", FirstDigits(sig.pickoff, 2) >> } \cup num,
                   NoHaptic)
     ELSE IF sig.thirdSign > 0 /\ ~hasPitch
       THEN Render("ShowThirdSignOnly",
                   { << "third", IF sig.thirdSign <= 4
                                   THEN thirdNames[sig.thirdSign + 1]
                                   ELSE "3?" >> } \cup num,
                   NoHaptic)
     ELSE Render("ShowPitch",
                 (IF hasPitch
                    THEN { << "pitch", pitchNames[sig.pitch + 1] >> }
                         \cup (IF sig.zone > 0
                                 THEN { << "zone", FirstDigits(sig.zone, 2) >> }
                                 ELSE {})
                    ELSE {})
                 \cup (IF sig.pickoff > 0 /\ hasPitch
                         THEN { << "pickoff", FirstDigits(sig.pickoff, 2) >> }
                         ELSE {})
                 \cup (IF sig.thirdSign > 0 /\ hasPitch /\ sig.thirdSign <= 4
                         THEN { << "third", thirdNames[sig.thirdSign + 1] >> }
                         ELSE {})
                 \cup num,
                 NoHaptic)

\* Heltec Stick (64x32 OLED) drawSignal
drawSignal_Stick(sig) ==
  LET hasPitch == sig.pitch < 5
  IN IF sig.type = 1
       THEN Render("ShowReset", { << "text", "RESET" >> }, NoHaptic)
     ELSE IF sig.pickoff > 0 /\ ~hasPitch
       THEN Render("ShowPickoffOnly",
                   { << "pickoff", FirstDigits(sig.pickoff, 2) >> }, NoHaptic)
     ELSE IF sig.thirdSign > 0 /\ ~hasPitch
       THEN Render("ShowThirdSignOnly",
                   IF sig.thirdSign <= 4
                     THEN { << "third", thirdNames[sig.thirdSign + 1] >> }
                     ELSE {},
                   NoHaptic)
     ELSE Render("ShowPitch",
                 IF hasPitch
                   THEN { << "pitch", pitchNames[sig.pitch + 1] >> }
                        \cup (IF sig.zone > 0 /\ sig.zone <= 9
                                THEN { << "zone", FirstDigits(sig.zone, 1) >> }
                                ELSE {})
                        \cup (IF sig.pickoff > 0
                                THEN { << "pickoff",
                                          FirstDigits(sig.pickoff, 1) >> }
                                ELSE {})
                        \cup (IF sig.thirdSign > 0 /\ sig.thirdSign <= 4
                                THEN { << "third",
                                          thirdNames[sig.thirdSign + 1] >> }
                                ELSE {})
                   ELSE {},
                 NoHaptic)

\* XIAO nRF52840 (64x32 OLED) drawSignal
drawSignal_XIAO(sig) ==
  LET hasPitch == sig.pitch < 5
  IN IF sig.type = 1
       THEN Render("ShowReset", { << "text", "RESET" >> }, NoHaptic)
     ELSE IF sig.pickoff > 0 /\ ~hasPitch
       THEN Render("ShowPickoffOnly",
                   { << "pickoff", FirstDigits(sig.pickoff, 2) >> }, NoHaptic)
     ELSE IF sig.thirdSign > 0 /\ ~hasPitch
       THEN Render("ShowThirdSignOnly",
                   IF sig.thirdSign <= 4
                     THEN { << "third", thirdNames[sig.thirdSign + 1] >> }
                     ELSE {},
                   NoHaptic)
     ELSE Render("ShowPitch",
                 IF hasPitch
                   THEN { << "pitch", pitchNames[sig.pitch + 1] >> }
                        \cup (IF sig.zone > 0 /\ sig.zone <= 9
                                THEN { << "zone", FirstDigits(sig.zone, 1) >> }
                                ELSE {})
                        \cup (IF sig.pickoff > 0
                                THEN { << "pickoff",
                                          FirstDigits(sig.pickoff, 1) >> }
                                ELSE {})
                        \cup (IF sig.thirdSign > 0 /\ sig.thirdSign <= 4
                                THEN { << "third",
                                          thirdNames[sig.thirdSign + 1] >> }
                                ELSE {})
                   ELSE {},
                 NoHaptic)

\* drawSignal that knows type 0 and type 1 only and draws nothing otherwise
drawSignal_unknownType(v, sig) ==
  IF sig.type > 1
    THEN [intent |-> "Blank", drawn |-> {}, haptic |-> NoHaptic]
    ELSE CASE v = "TWatch" -> drawSignal_TWatch(sig)
           [] v = "Heltec" -> drawSignal_Heltec(sig)
           [] v = "Stick"  -> drawSignal_Stick(sig)
           [] v = "XIAO"   -> drawSignal_XIAO(sig)

\* drawSignal that tests for a pickoff-only record before the Reset test
drawSignal_resetAfterPickoff(v, sig) ==
  LET s == IF sig.pickoff > 0 /\ ~(sig.pitch < 5)
             THEN [sig EXCEPT !.type = 0] ELSE sig
  IN CASE v = "TWatch" -> drawSignal_TWatch(s)
       [] v = "Heltec" -> drawSignal_Heltec(s)
       [] v = "Stick"  -> drawSignal_Stick(s)
       [] v = "XIAO"   -> drawSignal_XIAO(s)

\* drawSignal that tests for a third-sign-only record before the
\* pickoff-only test
drawSignal_thirdBeforePickoff(v, sig) ==
  LET s == IF sig.thirdSign > 0 /\ ~(sig.pitch < 5)
             THEN [sig EXCEPT !.pickoff = 0] ELSE sig
  IN CASE v = "TWatch" -> drawSignal_TWatch(s)
       [] v = "Heltec" -> drawSignal_Heltec(s)
       [] v = "Stick"  -> drawSignal_Stick(s)
       [] v = "XIAO"   -> drawSignal_XIAO(s)

\* drawSignal whose no-pitch test is "pitch == 255" instead of "pitch >= 5"
drawSignal_sentinelOnly(v, sig) ==
  LET s == IF sig.pitch >= 5 /\ sig.pitch # 255
             THEN [sig EXCEPT !.pitch = 4] ELSE sig
  IN CASE v = "TWatch" -> drawSignal_TWatch(s)
       [] v = "Heltec" -> drawSignal_Heltec(s)
       [] v = "Stick"  -> drawSignal_Stick(s)
       [] v = "XIAO"   -> drawSignal_XIAO(s)

\* drawSignal whose T-Watch plays the pickoff pattern for every record with
\* a pickoff, a pitch or not
drawSignal_pickoffHaptic(v, sig) ==
  LET r == CASE v = "TWatch" -> drawSignal_TWatch(sig)
             [] v = "Heltec" -> drawSignal_Heltec(sig)
             [] v = "Stick"  -> drawSignal_Stick(sig)
             [] v = "XIAO"   -> drawSignal_XIAO(sig)
  IN IF v = "TWatch" /\ sig.type # 1 /\ sig.pickoff > 0
       THEN [r EXCEPT !.haptic = vibrateForPickoff]
       ELSE r

\* drawSignal whose XIAO tests for a third-sign-only record before the
\* pickoff-only test
drawSignal_xiaoThirdFirst(v, sig) ==
  LET s == IF sig.thirdSign > 0 /\ ~(sig.pitch < 5)
             THEN [sig EXCEPT !.pickoff = 0] ELSE sig
  IN CASE v = "TWatch" -> drawSignal_TWatch(sig)
       [] v = "Heltec" -> drawSignal_Heltec(sig)
       [] v = "Stick"  -> drawSignal_Stick(sig)
       [] v = "XIAO"   -> drawSignal_XIAO(s)

\* drawSignal that takes a third sign above 4 for no third sign
drawSignal_knownThirdOnly(v, sig) ==
  LET s == IF sig.thirdSign > 4 THEN [sig EXCEPT !.thirdSign = 0] ELSE sig
  IN CASE v = "TWatch" -> drawSignal_TWatch(s)
       [] v = "Heltec" -> drawSignal_Heltec(s)
       [] v = "Stick"  -> drawSignal_Stick(s)
       [] v = "XIAO"   -> drawSignal_XIAO(s)

\* the drawSignal of the firmware this device runs
drawSignal(v, sig) ==
  CASE v = "TWatch" -> drawSignal_TWatch(sig)
    [] v = "Heltec" -> drawSignal_Heltec(sig)
    [] v = "Stick"  -> drawSignal_Stick(sig)
    [] v = "XIAO"   -> drawSignal_XIAO(sig)

\* drawStartup() and drawWaiting()
drawStartup(ready) ==
  Render(IF ready THEN "StartupReady" ELSE "StartupFailed", {}, NoHaptic)
drawWaiting == Render("Waiting", {}, NoHaptic)
Blank == Render("Blank", {}, NoHaptic)

\* What the radio holds for readData: nothing, a damaged frame (readData
\* returns an error code), or the bytes of a frame
EmptyBuf == [kind |-> "empty", bytes |-> <<>>]
BadBuf == [kind |-> "bad", bytes |-> <<>>]
FrameBuf(b) == [kind |-> "frame", bytes |-> b]

\* radio.readData((uint8_t*)&lastSignal, sizeof(lastSignal)): the verdict is
\* the radio's (CRC, header); of an intact frame at most sizeof(lastSignal)
\* bytes are copied over the front of lastSignal, the bytes behind a shorter
\* frame stay what they were
readData(sig, buf) ==
  IF buf.kind = "frame"
    THEN LET old == StructBytes(sig)
             n   == IF Len(buf.bytes) < RecordSize THEN Len(buf.bytes)
                    ELSE RecordSize
         IN [state |-> "ok",
             sig   |-> StructOf([i \in 1..RecordSize |->
                                   IF i <= n THEN buf.bytes[i] ELSE old[i]])]
    ELSE [state |-> "err", sig |-> sig]

----------------------------------------------------------------------------
(* Receiver: initial values of the globals *)

RxIdle ==
  /\ variant = "TWatch"
  /\ rxReady = FALSE
  /\ receivedFlag = FALSE
  /\ lastSignal = ZeroSignal
  /\ lastReceived = 0
  /\ millis = 0
  /\ pc = "off"
  /\ radioMode = "standby"
  /\ rxBuf = EmptyBuf
  /\ rxState = "none"
  /\ display = Blank
  /\ haptic = NoHaptic
  /\ needRearm = FALSE
  /\ sinceDecode = -1

----------------------------------------------------------------------------
(* T-Deck transmitter: the state machine *)

TxInit ==
  /\ state = InitState
  /\ currentSignal = ZeroSignal
  /\ loraReady = FALSE
  /\ txpc = "setup"
  /\ txFrames = <<>>
  /\ txSerial = <<>>
  /\ txSession = <<>>

\* setup(): setupLoRa() decides loraReady once
TxSetup ==
  /\ txpc = "setup"
  /\ \E beginOk \in BOOLEAN : loraReady' = TxSetupLoRa(beginOk)
  /\ txpc' = "loop"
  /\ UNCHANGED <<state, currentSignal, txFrames, txSerial, txSession>>
  /\ UNCHANGED rxVars

\* the sequence numbers of the records of type 0 among those handed to
\* radio.transmit
PitchNumbers(frames) ==
  LET fs == SelectSeq(frames, LAMBDA f : f.frame.type = 0)
  IN [i \in 1..Len(fs) |-> fs[i].frame.number]

\* loop() detects a tap at p = (x, y) and calls handleTouch(x, y)
HandleTouchAt(p, sendOk, resetOk) ==
  /\ txpc = "loop"
  /\ inSend(p[1], p[2]) => state.signalCount < MaxSends
  /\ LET r == TouchResult(state, currentSignal, loraReady,
                          p[1], p[2], sendOk, resetOk)
     IN /\ state' = r.state
        /\ currentSignal' = r.cur
        /\ txFrames' = r.frames
        /\ txSerial' = r.serial
        /\ txSession' = IF inReset(p[1], p[2]) THEN <<>>
                        ELSE txSession \o PitchNumbers(r.frames)
  /\ UNCHANGED <<loraReady, txpc>>
  /\ UNCHANGED rxVars

HandleTouch ==
  \E p \in TouchPoints, sendOk \in BOOLEAN, resetOk \in BOOLEAN :
    HandleTouchAt(p, sendOk, resetOk)

Init == TxInit /\ RxIdle

Next == TxSetup \/ HandleTouch

Spec == Init /\ [][Next]_vars

\* The selection buttons alone: taps on any of the twenty buttons
ToggleTap ==
  \E p \in ButtonPoints, sendOk \in BOOLEAN, resetOk \in BOOLEAN :
    HandleTouchAt(p, sendOk, resetOk)

NextToggle == TxSetup \/ ToggleTap

SpecToggle == Init /\ [][NextToggle]_vars

----------------------------------------------------------------------------
(* Receiver: setup(), the DIO1 interrupt, loop() *)

\* Frames the radio may deliver to a receiver: a fastball to zone 5, a
\* zone-only call, a pickoff with a third sign, a Reset; their numbers
\* repeat, skip 2, and fall when an earlier frame arrives after a later one
RxFrames ==
  { [type |-> 0, pitch |-> 0, zone |-> 5, pickoff |-> 0, thirdSign |-> 0,
     number |-> 1],
    [type |-> 0, pitch |-> 255, zone |-> 5, pickoff |-> 0, thirdSign |-> 0,
     number |-> 1],
    [type |-> 0, pitch |-> 255, zone |-> 0, pickoff |-> 2, thirdSign |-> 3,
     number |-> 3],
    [type |-> 1, pitch |-> 255, zone |-> 0, pickoff |-> 2, thirdSign |-> 3,
     number |-> 3] }

\* A frame of another size that reaches the radio intact: three bytes
ShortFrame == << 0, 1, 7 >>

\* What DIO1 may announce: a damaged frame, a record, the short frame
RxArrivals ==
  {BadBuf, FrameBuf(ShortFrame)} \cup {FrameBuf(StructBytes(f)) : f \in RxFrames}

TxIdle ==
  /\ state = InitState
  /\ currentSignal = ZeroSignal
  /\ loraReady = FALSE
  /\ txpc = "off"
  /\ txFrames = <<>>
  /\ txSerial = <<>>
  /\ txSession = <<>>

RxInit ==
  /\ variant \in Variants
  /\ rxReady = FALSE
  /\ receivedFlag = FALSE
  /\ lastSignal = ZeroSignal
  /\ lastReceived = 0
  /\ millis = 0
  /\ pc = "setup"
  /\ radioMode = "standby"
  /\ rxBuf = EmptyBuf
  /\ rxState = "none"
  /\ display = Blank
  /\ haptic = NoHaptic
  /\ needRearm = FALSE
  /\ sinceDecode = -1

\* setupLoRa(): loraReady is set only when radio.begin and the first
\* radio.startReceive both succeed
RxSetupLoRa(beginOk, startOk) == beginOk /\ startOk

\* setup(): setupLoRa(), drawStartup(), delay(2000), drawWaiting() if ready
RxSetup ==
  /\ pc = "setup"
  /\ \E beginOk \in BOOLEAN, startOk \in BOOLEAN :
       /\ rxReady' = RxSetupLoRa(beginOk, startOk)
       /\ radioMode' = IF beginOk /\ startOk THEN "rx" ELSE "standby"
       /\ display' = IF RxSetupLoRa(beginOk, startOk)
                       THEN drawWaiting
                       ELSE drawStartup(FALSE)
  /\ millis' = ToClock(SetupDelayMs)
  /\ pc' = "check"
  /\ UNCHANGED sinceDecode
  /\ UNCHANGED <<variant, receivedFlag, lastSignal, lastReceived, rxBuf,
                 rxState, haptic, needRearm>>
  /\ UNCHANGED txVars

\* The SX1262 raises DIO1 while listening: a frame, or a damaged one, is in
\* its buffer; setFlag() runs.  Whether the radio keeps listening afterwards
\* is the radio library's choice.
RadioIrq ==
  /\ pc # "setup"
  /\ radioMode = "rx"
  /\ \E b \in RxArrivals : rxBuf' = b
  /\ \E m \in {"rx", "standby"} : radioMode' = m
  /\ receivedFlag' = TRUE
  /\ UNCHANGED sinceDecode
  /\ UNCHANGED <<variant, rxReady, lastSignal, lastReceived, millis, pc,
                 rxState, display, haptic, needRearm>>
  /\ UNCHANGED txVars

\* loop(): "if (!loraReady) { delay(...); return; }"
LoopNotReady ==
  /\ pc = "check"
  /\ ~rxReady
  /\ millis < MaxTicks * ToClock(TickMs)
  /\ millis' = (millis + ToClock(TickMs)) % ClockWrap
  /\ UNCHANGED sinceDecode
  /\ UNCHANGED <<variant, rxReady, receivedFlag, lastSignal, lastReceived, pc,
                 radioMode, rxBuf, rxState, display, haptic, needRearm>>
  /\ UNCHANGED txVars

\* loop(): "if (receivedFlag)"
LoopCheck ==
  /\ pc = "check"
  /\ rxReady
  /\ pc' = IF receivedFlag THEN "clear" ELSE "idle"
  /\ UNCHANGED sinceDecode
  /\ UNCHANGED <<variant, rxReady, receivedFlag, lastSignal, lastReceived,
                 millis, radioMode, rxBuf, rxState, display, haptic,
                 needRearm>>
  /\ UNCHANGED txVars

\* loop(): "receivedFlag = false;" the notification is consumed
LoopClear ==
  /\ pc = "clear"
  /\ receivedFlag' = FALSE
  /\ needRearm' = TRUE
  /\ pc' = "read"
  /\ UNCHANGED sinceDecode
  /\ UNCHANGED <<variant, rxReady, lastSignal, lastReceived, millis,
                 radioMode, rxBuf, rxState, display, haptic>>
  /\ UNCHANGED txVars

\* LoopReadData whose error path leaves the block without startReceive
LoopReadData_noRearmOnError ==
  /\ pc = "read"
  /\ rxState' = readData(lastSignal, rxBuf).state
  /\ lastSignal' = readData(lastSignal, rxBuf).sig
  /\ pc' = IF rxState' = "ok" THEN "draw" ELSE "idle"
  /\ UNCHANGED sinceDecode
  /\ UNCHANGED <<variant, rxReady, receivedFlag, lastReceived, millis,
                 radioMode, rxBuf, display, haptic, needRearm>>
  /\ UNCHANGED txVars

\* LoopReadData that drops a record whose number is not above the number
\* of the record read before it
LoopReadData_sequenceGuard ==
  /\ pc = "read"
  /\ rxState' = readData(lastSignal, rxBuf).state
  /\ lastSignal' = readData(lastSignal, rxBuf).sig
  /\ pc' = IF rxState' = "ok" /\ lastSignal'.number > lastSignal.number
             THEN "draw" ELSE "rearm"
  /\ UNCHANGED sinceDecode
  /\ UNCHANGED <<variant, rxReady, receivedFlag, lastReceived, millis,
                 radioMode, rxBuf, display, haptic, needRearm>>
  /\ UNCHANGED txVars

\* LoopReadData that restarts the idle timer when readData fails
LoopReadData_stampOnError ==
  /\ pc = "read"
  /\ rxState' = readData(lastSignal, rxBuf).state
  /\ lastSignal' = readData(lastSignal, rxBuf).sig
  /\ pc' = IF rxState' = "ok" THEN "draw" ELSE "rearm"
  /\ lastReceived' = IF rxState' = "ok" THEN lastReceived ELSE millis
  /\ UNCHANGED sinceDecode
  /\ UNCHANGED <<variant, rxReady, receivedFlag, millis,
                 radioMode, rxBuf, display, haptic, needRearm>>
  /\ UNCHANGED txVars

\* LoopReadData that returns from loop() when readData fails
LoopReadData_returnOnError ==
  /\ pc = "read"
  /\ rxState' = readData(lastSignal, rxBuf).state
  /\ lastSignal' = readData(lastSignal, rxBuf).sig
  /\ pc' = IF rxState' = "ok" THEN "draw" ELSE "check"
  /\ UNCHANGED sinceDecode
  /\ UNCHANGED <<variant, rxReady, receivedFlag, lastReceived, millis,
                 radioMode, rxBuf, display, haptic, needRearm>>
  /\ UNCHANGED txVars

\* loop(): "int state = radio.readData(&lastSignal, sizeof(lastSignal));"
\* and the branch on state == RADIOLIB_ERR_NONE
LoopReadData ==
  /\ pc = "read"
  /\ rxState' = readData(lastSignal, rxBuf).state
  /\ lastSignal' = readData(lastSignal, rxBuf).sig
  /\ pc' = IF rxState' = "ok" THEN "draw" ELSE "rearm"
  /\ UNCHANGED sinceDecode
  /\ UNCHANGED <<variant, rxReady, receivedFlag, lastReceived, millis,
                 radioMode, rxBuf, display, haptic, needRearm>>
  /\ UNCHANGED txVars

\* LoopRender that stamps lastReceived only when the idle timer is not
\* running already
LoopRender_keepStamp ==
  /\ pc = "draw"
  /\ display' = drawSignal(variant, lastSignal)
  /\ haptic' = drawSignal(variant, lastSignal).haptic
  /\ lastReceived' = IF lastReceived > 0 THEN lastReceived ELSE millis
  /\ sinceDecode' = millis
  /\ pc' = "rearm"
  /\ UNCHANGED <<variant, rxReady, receivedFlag, lastSignal, millis,
                 radioMode, rxBuf, rxState, needRearm>>
  /\ UNCHANGED txVars

\* loop(): "drawSignal(lastSignal); lastReceived = millis();"
LoopRender ==
  /\ pc = "draw"
  /\ display' = drawSignal(variant, lastSignal)
  /\ haptic' = drawSignal(variant, lastSignal).haptic
  /\ lastReceived' = millis
  /\ sinceDecode' = millis
  /\ pc' = "rearm"
  /\ UNCHANGED <<variant, rxReady, receivedFlag, lastSignal, millis,
                 radioMode, rxBuf, rxState, needRearm>>
  /\ UNCHANGED txVars

\* LoopStartReceive in a loop that clears the notification flag after the
\* frame is processed, together with the restart of the receiver
LoopStartReceive_clearFlag ==
  /\ pc = "rearm"
  /\ \E ok \in BOOLEAN : radioMode' = IF ok THEN "rx" ELSE "standby"
  /\ receivedFlag' = FALSE
  /\ needRearm' = FALSE
  /\ pc' = "idle"
  /\ UNCHANGED sinceDecode
  /\ UNCHANGED <<variant, rxReady, lastSignal, lastReceived,
                 millis, rxBuf, rxState, display, haptic>>
  /\ UNCHANGED txVars

\* loop(): "radio.startReceive();" its result is not looked at
LoopStartReceive ==
  /\ pc = "rearm"
  /\ \E ok \in BOOLEAN : radioMode' = IF ok THEN "rx" ELSE "standby"
  /\ needRearm' = FALSE
  /\ pc' = "idle"
  /\ UNCHANGED sinceDecode
  /\ UNCHANGED <<variant, rxReady, receivedFlag, lastSignal, lastReceived,
                 millis, rxBuf, rxState, display, haptic>>
  /\ UNCHANGED txVars

\* loop(): "if (lastReceived > 0 && millis() - lastReceived > 30000)"
IdleExpired(last, now) ==
  last > 0 /\ ((now - last) % ClockWrap) > ToClock(IdleMs)

LoopIdle ==
  /\ pc = "idle"
  /\ IF IdleExpired(lastReceived, millis)
       THEN /\ display' = drawWaiting
            /\ lastReceived' = 0
            /\ sinceDecode' = -1
       ELSE UNCHANGED <<display, lastReceived, sinceDecode>>
  /\ pc' = "delay"
  /\ UNCHANGED <<variant, rxReady, receivedFlag, lastSignal, millis,
                 radioMode, rxBuf, rxState, haptic, needRearm>>
  /\ UNCHANGED txVars

\* A long quiet stretch: with no notification pending and lastReceived 0
\* every pass through loop() changes nothing but the time; the passes up to
\* a few cycles before millis() wraps around (49.7 days of uptime) are taken
\* in one step.
LoopQuiet ==
  /\ pc = "delay"
  /\ ~receivedFlag
  /\ lastReceived = 0
  /\ millis < NearWrap
  /\ millis' = NearWrap
  /\ pc' = "check"
  /\ UNCHANGED sinceDecode
  /\ UNCHANGED <<variant, rxReady, receivedFlag, lastSignal, lastReceived,
                 radioMode, rxBuf, rxState, display, haptic, needRearm>>
  /\ UNCHANGED txVars

\* loop(): "delay(10);" and the return to the top of loop()
LoopDelay ==
  /\ pc = "delay"
  /\ millis < MaxTicks * ToClock(TickMs) \/ millis >= NearWrap
  /\ millis' = (millis + ToClock(TickMs)) % ClockWrap
  /\ pc' = "check"
  /\ UNCHANGED sinceDecode
  /\ UNCHANGED <<variant, rxReady, receivedFlag, lastSignal, lastReceived,
                 radioMode, rxBuf, rxState, display, haptic, needRearm>>
  /\ UNCHANGED txVars

InitRx == TxIdle /\ RxInit

NextRx ==
  \/ RxSetup
  \/ RadioIrq
  \/ LoopNotReady
  \/ LoopCheck
  \/ LoopClear
  \/ LoopReadData
  \/ LoopRender
  \/ LoopStartReceive
  \/ LoopIdle
  \/ LoopQuiet
  \/ LoopDelay

SpecRx == InitRx /\ [][NextRx]_vars

\* loop(): "radio.startReceive();" when the call takes effect
LoopStartReceiveOk == LoopStartReceive /\ radioMode' = "rx"

\* One statement of loop(): the processor runs the main cycle for ever
LoopStep ==
  \/ LoopNotReady
  \/ LoopCheck
  \/ LoopClear
  \/ LoopReadData
  \/ LoopRender
  \/ LoopStartReceiveOk
  \/ LoopIdle
  \/ LoopQuiet
  \/ LoopDelay

\* A receiver whose main cycle keeps running and whose startReceive calls
\* take effect
NextRxLive == RxSetup \/ RadioIrq \/ LoopStep

\* The two receivers with an OLED panel, before setup()
InitRxLive == InitRx /\ variant \in {"Heltec", "XIAO"}

SpecRxLive ==
  InitRxLive /\ [][NextRxLive]_vars /\ WF_vars(RxSetup \/ LoopStep)

\* Any one device of the system: the transmitter or one of the receivers
InitDevices == Init \/ InitRx

NextDevices == Next \/ NextRx

SpecDevices == InitDevices /\ [][NextDevices]_vars

----------------------------------------------------------------------------
(* drawSignal on every sampled record value *)

TypeVals == (0..MaxTypeByte) \cup {255}
PitchVals == (0..MaxPitchByte) \cup {254, 255}
ZoneVals == (0..MaxZoneByte) \cup {100, 255}
PickoffVals == (0..MaxPickoffByte) \cup {100}
ThirdVals == (0..MaxThirdByte) \cup {255}
NumberVals == {0, 65535}

SampleRecords ==
  [type : TypeVals, pitch : PitchVals, zone : ZoneVals,
   pickoff : PickoffVals, thirdSign : ThirdVals, number : NumberVals]

\* a receiver that has just read a record and is about to call drawSignal
InitDraw ==
  /\ TxIdle
  /\ variant \in Variants
  /\ rxReady = TRUE
  /\ receivedFlag = FALSE
  /\ lastSignal \in SampleRecords
  /\ lastReceived = 0
  /\ millis = ToClock(SetupDelayMs)
  /\ pc = "draw"
  /\ radioMode = "standby"
  /\ rxBuf = EmptyBuf
  /\ rxState = "ok"
  /\ display = drawWaiting
  /\ haptic = NoHaptic
  /\ needRearm = TRUE
  /\ sinceDecode = -1

NextDraw == LoopRender

SpecDraw == InitDraw /\ [][NextDraw]_vars

----------------------------------------------------------------------------
(* Properties *)

\* the render intents of a decoded record
RenderIntents ==
  {"ShowReset", "ShowPickoffOnly", "ShowThirdSignOnly", "ShowPitch"}

\* the kinds of the items a render draws
Kinds(r) == {d[1] : d \in r.drawn}

\* the receiver has just called drawSignal(lastSignal)
Drawn == pc = "rearm" /\ rxState = "ok"

\* a tap handled by the Send block, a tap handled by the Reset block
SendStep ==
  \E p \in TouchPoints, sendOk \in BOOLEAN, resetOk \in BOOLEAN :
    inSend(p[1], p[2]) /\ HandleTouchAt(p, sendOk, resetOk)

ResetStep ==
  \E p \in TouchPoints, sendOk \in BOOLEAN, resetOk \in BOOLEAN :
    inReset(p[1], p[2]) /\ HandleTouchAt(p, sendOk, resetOk)

SelectionEmpty(st) ==
  st.pitch = PITCH_NONE /\ st.zone = 0 /\ st.pickoff = 0 /\ st.thirdSign = 0

\* C1: in every receiver variant, whenever the main cycle is about to look at
\* or consume a notification, every notification consumed earlier has been
\* followed by a call of startReceive, on the readData-success path and on
\* the readData-error path alike.
C1_RearmBeforeNextNotification ==
  pc \in {"check", "clear"} => ~needRearm

\* C1 witness: a cycle whose readData failed has re-armed, an earlier record
\* was decoded, and the next notification is already pending.
C1_Witness ==
  /\ pc = "check" /\ rxState = "err" /\ ~needRearm
  /\ receivedFlag /\ lastReceived > 0

\* C2: for every record value drawSignal takes exactly one of the four
\* render intents ShowReset, ShowPickoffOnly, ShowThirdSignOnly, ShowPitch.
C2_ExactlyOneIntent ==
  Drawn => Cardinality({i \in RenderIntents : display.intent = i}) = 1

\* C2 witness: a nonsensical record (unknown type byte, pitch byte 254,
\* zone 255) has been drawn.
C2_Witness ==
  /\ Drawn /\ lastSignal.type = 255 /\ lastSignal.pitch = 254
  /\ lastSignal.zone = 255 /\ display.intent \in RenderIntents

\* C3: a record of type 1 (Reset) gives ShowReset whatever its pitch, zone,
\* pickoff and thirdSign, and nothing of those four fields is rendered: the
\* render is the text RESET, no vibration (and the number, where a variant
\* draws it).
C3_ResetIgnoresFields ==
  (Drawn /\ lastSignal.type = 1) =>
     /\ display.intent = "ShowReset"
     /\ {d \in display.drawn : d[1] # "number"} = { << "text", "RESET" >> }
     /\ display.haptic = NoHaptic

\* C3 witness: a Reset record that also carries a valid pitch, zone, pickoff
\* and third sign has been drawn.
C3_Witness ==
  /\ Drawn /\ lastSignal.type = 1 /\ lastSignal.pitch = 0
  /\ lastSignal.zone = 5 /\ lastSignal.pickoff = 2 /\ lastSignal.thirdSign = 3
  /\ display.intent = "ShowReset"

\* C4: a non-Reset record with no pitch (pitch byte not below 5) and
\* pickoff > 0 gives ShowPickoffOnly
\* whatever its thirdSign and zone: the pickoff marker is drawn, no pitch,
\* zone or third-sign marker is, and the number in the marker is the
\* record's pickoff (as far as the marker's two digits hold it).
C4_PickoffPrecedesThird ==
  (Drawn /\ lastSignal.type # 1 /\ ~(lastSignal.pitch < 5)
         /\ lastSignal.pickoff > 0) =>
     /\ display.intent = "ShowPickoffOnly"
     /\ Kinds(display) \ {"number"} = {"pickoff"}
     /\ Digits(lastSignal.pickoff) <= 2 =>
          << "pickoff", lastSignal.pickoff >> \in display.drawn

\* C4 witness: a record with no pitch, pickoff 2, third sign 3 and zone 5 has
\* been drawn as a pickoff.
C4_Witness ==
  /\ Drawn /\ lastSignal.type = 0 /\ lastSignal.pitch = 255
  /\ lastSignal.pickoff = 2 /\ lastSignal.thirdSign = 3 /\ lastSignal.zone = 5
  /\ display.intent = "ShowPickoffOnly"

\* C5: a non-Reset record with no pitch (pitch byte not below 5), pickoff 0
\* and thirdSign > 0 gives ShowThirdSignOnly, with the sign's name drawn for
\* signs 1..4, and no other record gives that intent.
C5_ThirdSignOnly ==
  Drawn =>
     /\ display.intent = "ShowThirdSignOnly"
          <=> /\ lastSignal.type # 1
              /\ ~(lastSignal.pitch < 5)
              /\ lastSignal.pickoff = 0
              /\ lastSignal.thirdSign > 0
     /\ (display.intent = "ShowThirdSignOnly" /\ lastSignal.thirdSign <= 4) =>
          /\ << "third", thirdNames[lastSignal.thirdSign + 1] >>
               \in display.drawn
          /\ Kinds(display) \ {"number"} = {"third"}

\* C5 witness: a record with the no-pitch sentinel, pickoff 0 and third sign
\* 3 has been drawn as a third sign.
C5_Witness ==
  /\ Drawn /\ lastSignal.type = 0 /\ lastSignal.pitch = 255
  /\ lastSignal.pickoff = 0 /\ lastSignal.thirdSign = 3
  /\ display.intent = "ShowThirdSignOnly"

\* C6: every non-Reset record that is neither pickoff-only nor
\* third-sign-only gives one ShowPitch render that shows the pitch when it
\* is concrete, the zone when it is 1..9, the pickoff when it is > 0 and the
\* third sign when it is one of 1..4, the record without pitch, pickoff and
\* third sign included.
C6_CompositeShowsAllFields ==
  (Drawn /\ lastSignal.type # 1
         /\ ~(lastSignal.pickoff > 0 /\ ~(lastSignal.pitch < 5))
         /\ ~(lastSignal.thirdSign > 0 /\ ~(lastSignal.pitch < 5))) =>
     /\ display.intent = "ShowPitch"
     /\ lastSignal.pitch < 5 =>
          << "pitch", pitchNames[lastSignal.pitch + 1] >> \in display.drawn
     /\ lastSignal.zone \in 1..9 =>
          << "zone", lastSignal.zone >> \in display.drawn
     /\ lastSignal.pickoff > 0 => "pickoff" \in Kinds(display)
     /\ lastSignal.thirdSign \in 1..4 =>
          << "third", thirdNames[lastSignal.thirdSign + 1] >>
            \in display.drawn

\* C7: a Send increments the counter of the selected pitch by exactly 1 when
\* the pitch is one of the four scored types, no counter when the pitch is
\* none or pitchout, leaves the other counters unchanged, and increments the
\* send count by exactly 1 (modulo 2^16) in every case.
C7_SendCounts ==
  [][SendStep =>
       /\ state'.signalCount = (state.signalCount + 1) % U16
       /\ \A i \in 0..3 :
            state'.counts[i] =
              IF state.pitch = i /\ state.pitch # PITCH_NONE
                                 /\ state.pitch # PO
                THEN (state.counts[i] + 1) % U16
                ELSE state.counts[i]]_vars

\* C7 witness: two Sends have happened, one with a fastball selected and the
\* latest one with no pitch selected.
C7_Witness ==
  /\ state.signalCount = 2 /\ state.counts[FB] = 1 /\ state.counts[SL] = 0
  /\ state.lastPitch = PITCH_NONE

\* C8: after every Send, whether the radio transmit succeeded, failed or was
\* not attempted, the selection is empty.
C8_SendClearsSelection ==
  [][SendStep => SelectionEmpty(state')]_vars

\* C8 witness: a Send of a fastball whose transmit failed has left the
\* selection empty.
C8_Witness ==
  /\ txSerial = << "Transmit failed" >> /\ state.lastPitch = FB
  /\ currentSignal.zone = 5 /\ SelectionEmpty(state)

\* C9 as stated: a Reset from any transmitter state clears the selection,
\* zeroes the four counters and the send count, and transmits one record of
\* type Reset.
C9_ResetAlwaysTransmits ==
  [][ResetStep =>
       /\ SelectionEmpty(state')
       /\ \A i \in 0..3 : state'.counts[i] = 0
       /\ state'.signalCount = 0
       /\ Len(txFrames') = 1
       /\ txFrames'[1].frame.type = 1]_vars

\* C9 amended: a Reset from any transmitter state clears the selection and
\* zeroes the four counters and the send count; it hands exactly one record,
\* of type Reset, to the radio when the radio initialised at startup, and
\* none when it did not.
C9_ResetClearsAndTransmitsIfReady ==
  [][ResetStep =>
       /\ SelectionEmpty(state')
       /\ \A i \in 0..3 : state'.counts[i] = 0
       /\ state'.signalCount = 0
       /\ IF loraReady
            THEN Len(txFrames') = 1 /\ txFrames'[1].frame.type = 1
            ELSE txFrames' = <<>>]_vars

\* C9 witness: a Reset after an earlier Send has been transmitted and the
\* counters and the send count are zero.
C9_Witness ==
  /\ loraReady /\ Len(txFrames) = 1 /\ txFrames[1].frame.type = 1
  /\ currentSignal.number > 0
  /\ state.signalCount = 0 /\ \A i \in 0..3 : state.counts[i] = 0
  /\ SelectionEmpty(state)

\* C10: every record of type Reset handed to the radio carries sequence
\* number 0.
C10_ResetCarriesZero ==
  \A i \in 1..Len(txFrames) :
     txFrames[i].frame.type = 1 => txFrames[i].frame.number = 0

\* C11: within one transmitter session (from startup or a Reset to the next
\* Reset) every Pitch record handed to the radio carries the sequence number
\* of the session's previous Pitch record plus 1 (modulo 2^16); below the
\* wrap-around the numbers strictly increase.
C11_SessionNumbersIncrease ==
  \A i \in 1..(Len(txSession) - 1) :
     /\ txSession[i + 1] = (txSession[i] + 1) % U16
     /\ txSession[i] < U16 - 1 => txSession[i + 1] > txSession[i]

\* C11 witness: the second Send of a session has been handed to the radio.
C11_Witness ==
  /\ Len(txSession) = 2 /\ Len(txFrames) = 1
  /\ txFrames[1].frame.number = txSession[2]

\* the selection state that handleTouch(p) leaves, from the current state
AfterTap(p) ==
  TouchResult(state, currentSignal, loraReady, p[1], p[2], TRUE, TRUE).state

\* C12: from every state the transmitter reaches, a tap on the button of
\* value v of pitch, zone, pickoff or third sign unsets the field (pitch to
\* none, the others to 0) when the field equals v, and otherwise sets the
\* field to v, whatever it held before.
C12_ToggleSetsOrUnsets ==
  txpc = "loop" =>
    /\ \A i \in 0..3 : \A p \in PitchTaps(i) :
         AfterTap(p).pitch = IF state.pitch = i THEN PITCH_NONE ELSE i
    /\ \A k \in 1..9 : \A p \in ZoneTaps(k) :
         AfterTap(p).zone = IF state.zone = k THEN 0 ELSE k
    /\ \A k \in 1..3 : \A p \in PickoffTaps(k) :
         AfterTap(p).pickoff = IF state.pickoff = k THEN 0 ELSE k
    /\ \A k \in 1..4 : \A p \in ThirdTaps(k) :
         AfterTap(p).thirdSign = IF state.thirdSign = k THEN 0 ELSE k

\* C12 witness: toggles have set the last value of every field.
C12_Witness ==
  /\ state.pitch = SL /\ state.zone = 9 /\ state.pickoff = 3
  /\ state.thirdSign = 4 /\ state.signalCount = 0

\* the taps on the buttons of one selection field
AllPitchTaps == UNION {PitchTaps(i) : i \in 0..3}
AllZoneTaps == UNION {ZoneTaps(k) : k \in 1..9}
AllPickoffTaps == UNION {PickoffTaps(k) : k \in 1..3}
AllThirdTaps == UNION {ThirdTaps(k) : k \in 1..4}

\* C13: from every state the transmitter reaches, a tap on a selection
\* button changes no selection field other than the button's own, leaves
\* the four counters, the send count and the undo snapshot unchanged, hands
\* nothing to the radio and leaves currentSignal alone.
C13_ToggleFrame ==
  txpc = "loop" =>
    \A p \in ButtonPoints :
      LET r == TouchResult(state, currentSignal, loraReady, p[1], p[2],
                           TRUE, TRUE)
      IN /\ p \notin AllPitchTaps => r.state.pitch = state.pitch
         /\ p \notin AllZoneTaps => r.state.zone = state.zone
         /\ p \notin AllPickoffTaps => r.state.pickoff = state.pickoff
         /\ p \notin AllThirdTaps => r.state.thirdSign = state.thirdSign
         /\ r.state.counts = state.counts
         /\ r.state.signalCount = state.signalCount
         /\ r.state.lastPitch = state.lastPitch
         /\ r.frames = <<>> /\ r.serial = <<>>
         /\ r.cur = currentSignal

\* C13 witness: after a Send that counted a slider, all four selection
\* fields are set at the same time.
C13_Witness ==
  /\ state.pitch = FB /\ state.zone = 5 /\ state.pickoff = 2
  /\ state.thirdSign = 3
  /\ state.counts[SL] = 1 /\ state.signalCount = 1 /\ state.lastPitch = SL

\* the field that the button at p selects is unset
FieldUnset(p) ==
  /\ p \in AllPitchTaps => state.pitch = PITCH_NONE
  /\ p \in AllZoneTaps => state.zone = 0
  /\ p \in AllPickoffTaps => state.pickoff = 0
  /\ p \in AllThirdTaps => state.thirdSign = 0

\* C14: from every state in which a selection field is unset, two taps in a
\* row on one button of that field give back exactly the state before the
\* first tap: selection, counters, send count, undo snapshot, and nothing is
\* handed to the radio.
C14_DoubleToggleIsIdentity ==
  txpc = "loop" =>
    \A p \in ButtonPoints :
      FieldUnset(p) =>
        LET r1 == TouchResult(state, currentSignal, loraReady, p[1], p[2],
                              TRUE, TRUE)
            r2 == TouchResult(r1.state, r1.cur, loraReady, p[1], p[2],
                              TRUE, TRUE)
        IN /\ r1.state # state
           /\ r2.state = state
           /\ r2.cur = currentSignal
           /\ r1.frames \o r2.frames = <<>>

\* C14 witness: the pitch is unset while zone, pickoff and third sign are
\* set, so that a double tap on a pitch button starts from a selection that
\* the three other fields fill.
C14_Witness ==
  /\ txpc = "loop" /\ state.pitch = PITCH_NONE /\ state.zone = 7
  /\ state.pickoff = 1 /\ state.thirdSign = 4

\* C15: the record a Send hands to the radio has type 0 (Pitch), the zone,
\* pickoff and third sign of the selection, and as pitch byte the selected
\* pitch, or 255 when no pitch is selected; a receiver that reads the
\* record's bytes holds the same record, draws the name of that pitch when
\* one was selected and draws no pitch when none was.
C15_SendRoundTrip ==
  [][(SendStep /\ loraReady) =>
       /\ Len(txFrames') = 1
       /\ LET f  == txFrames'[1].frame
              rx == readData(lastSignal, FrameBuf(StructBytes(f))).sig
          IN /\ f.type = 0
             /\ f.zone = state.zone
             /\ f.pickoff = state.pickoff
             /\ f.thirdSign = state.thirdSign
             /\ f.pitch = IF state.pitch = PITCH_NONE THEN 255
                          ELSE state.pitch
             /\ rx = f
             /\ \A v \in Variants :
                  IF state.pitch = PITCH_NONE
                    THEN "pitch" \notin Kinds(drawSignal(v, rx))
                    ELSE << "pitch", pitchNames[state.pitch + 1] >>
                           \in drawSignal(v, rx).drawn]_vars

\* C15 witness: a Send with no pitch selected, pickoff 2 and third sign 3
\* has handed its record, with the sentinel 255, to the radio.
C15_Witness ==
  /\ Len(txFrames) = 1 /\ txFrames[1].frame.type = 0
  /\ txFrames[1].frame.pitch = 255 /\ txFrames[1].frame.pickoff = 2
  /\ txFrames[1].frame.thirdSign = 3 /\ state.lastPitch = PITCH_NONE

\* the idle test of loop() is passed
IdleStep == pc = "idle" /\ pc' = "delay"

\* time elapsed from clock reading t to the current reading of millis()
ElapsedSince(t) == (millis - t) % ClockWrap

\* C16: at every cycle's idle test at which a signal has been decoded since
\* the last timer-driven Waiting (or startup) and more than 30 s have
\* elapsed since the latest decode, the display moves to Waiting and the
\* timer is disarmed; at an idle test with no such signal outstanding the
\* display is left alone.  So the timer fires once, at the first cycle past
\* 30 s, and not again until a new signal is decoded.
C16_IdleFiresOnceAtFirstCycle ==
  [][IdleStep =>
       IF sinceDecode # -1 /\ ElapsedSince(sinceDecode) > ToClock(IdleMs)
         THEN display' = drawWaiting /\ sinceDecode' = -1
         ELSE sinceDecode = -1 => display' = display]_vars

\* C17: the idle test of loop() changes the display or lastReceived only by
\* moving the display to Waiting, and only when a signal has been decoded
\* since the last timer-driven Waiting (or startup) and more than 30 s have
\* elapsed since the most recent decode; a decode inside the window restarts
\* the 30 s from that decode.
C17_IdleOnlyAfterQuietPeriod ==
  [][(IdleStep /\ (display' # display \/ lastReceived' # lastReceived)) =>
       /\ display' = drawWaiting
       /\ sinceDecode # -1
       /\ ElapsedSince(sinceDecode) > ToClock(IdleMs)]_vars

\* C17 witness: after a decode that played a vibration and more than 30 s
\* of quiet the idle test has put the display to Waiting and disarmed.
C17_Witness ==
  /\ pc = "delay" /\ display = drawWaiting /\ lastReceived = 0
  /\ sinceDecode = -1 /\ rxState = "ok" /\ haptic # NoHaptic
  /\ millis > ToClock(SetupDelayMs) + ToClock(IdleMs)
  /\ millis < NearWrap

\* the receiver's setup() has run
RxStarted == pc \notin {"off", "setup"}

\* C18: once setup() has run, loraReady never changes on any device; a
\* transmitter whose radio failed to initialise hands nothing to the radio
\* and leaves currentSignal alone at every tap; a receiver whose radio failed
\* to initialise or to start listening stays at the top of loop(), never
\* reaches readData or startReceive, and keeps showing the failed startup
\* screen.
C18_RadioFailureIsPermanent ==
  [][/\ txpc = "loop" => loraReady' = loraReady
     /\ RxStarted => rxReady' = rxReady
     /\ (txpc = "loop" /\ ~loraReady) =>
          /\ txFrames' = <<>> /\ txSerial' = <<>>
          /\ currentSignal' = currentSignal
     /\ (RxStarted /\ ~rxReady) =>
          /\ pc' = "check" /\ rxState' = "none" /\ ~needRearm'
          /\ radioMode' = radioMode /\ lastSignal' = lastSignal
          /\ display' = drawStartup(FALSE)]_vars

\* C18 witness: a receiver whose radio failed at startup has been through
\* loop() several times and still shows the failed startup screen.
C18_Witness ==
  /\ RxStarted /\ ~rxReady /\ pc = "check"
  /\ millis > ToClock(SetupDelayMs) + ToClock(TickMs)
  /\ display = drawStartup(FALSE) /\ rxState = "none"

\* display, vibration, idle timer and clock are what they were
RenderUntouched ==
  /\ display' = display /\ haptic' = haptic
  /\ lastReceived' = lastReceived /\ millis' = millis

\* C19: when readData reports an error the cycle goes straight to
\* startReceive: from the failed readData up to and including startReceive
\* nothing is rendered, no vibration is played, the display and
\* lastReceived stay what they were, no time passes, and the radio has been
\* re-armed when the cycle reaches its idle test.
C19_ReadErrorDropsFrame ==
  [][/\ (pc = "read" /\ rxState' = "err") =>
          pc' \in {"read", "rearm"} /\ RenderUntouched
     /\ (pc = "rearm" /\ rxState = "err") =>
          /\ pc' \in {"rearm", "idle"} /\ RenderUntouched
          /\ pc' = "idle" => ~needRearm']_vars

\* C19 witness: a cycle later than the one that drew a pitch had a failed
\* readData and has re-armed; the pitch is still on the display and the
\* idle timer still counts from the earlier decode.
C19_Witness ==
  /\ pc = "idle" /\ rxState = "err" /\ ~needRearm
  /\ display.intent = "ShowPitch" /\ lastReceived > 0
  /\ millis > lastReceived /\ sinceDecode = lastReceived

\* C20: a received frame whose byte length differs from the fixed record
\* size fails to decode (readData does not report success) and is never
\* rendered.
C20_WrongLengthFailsToDecode ==
  [][(LoopReadData /\ Len(rxBuf.bytes) # RecordSize) =>
       rxState' = "err" /\ pc' # "draw"]_vars

\* C21: after a Send the undo snapshot holds the whole selection of the
\* moment before the Send: its pitch, zone, pickoff and third sign.
C21_SnapshotHoldsSelection ==
  [][SendStep => UndoSnapshot(state') = Selection(state)]_vars

\* C22: a tap on the UNDO button after a Send makes the undo snapshot the
\* current selection, hands nothing to the radio and leaves the four
\* counters and the send count as the Send left them.
C22_UndoRestoresSnapshot ==
  (txpc = "loop" /\ state.signalCount > 0 /\ SelectionEmpty(state)) =>
    \A p \in ButtonTaps(undoBtn) :
      LET r == TouchResult(state, currentSignal, loraReady, p[1], p[2],
                           TRUE, TRUE)
      IN /\ Selection(r.state) = UndoSnapshot(state)
         /\ r.frames = <<>>
         /\ r.state.counts = state.counts
         /\ r.state.signalCount = state.signalCount

\* a T-Watch, the receiver with a vibration motor, has just drawn a record
DrawnOnWatch == Drawn /\ variant = "TWatch"

\* C23: every decoded record plays a vibration pattern on the T-Watch,
\* whichever render intent it gives.
C23_EveryRecordVibrates ==
  DrawnOnWatch => display.haptic # NoHaptic

\* C24: a record of type 1 (Reset) plays one long pulse on the T-Watch.
C24_ResetVibratesLong ==
  (DrawnOnWatch /\ lastSignal.type = 1) => display.haptic = vibrateLong

\* pulses of a pattern <<count, onTime, offTime>>
Pulses(h) == h[1]
ShortPulses(h) == h[2] <= 50
LongPulses(h) == h[2] >= 150
RapidPulses(h) == h[2] < 100 /\ h[3] < 100

\* C25: on the T-Watch a non-Reset record with a concrete pitch plays that
\* pitch's pattern whatever its pickoff and third sign (fastball one short
\* pulse, curveball two short, changeup three short, slider one long,
\* pitchout two long); a pickoff-only record plays three rapid pulses; a
\* third-sign-only record plays two long pulses.
C25_HapticFollowsPrecedence ==
  (DrawnOnWatch /\ lastSignal.type # 1) =>
    LET h == display.haptic
    IN /\ lastSignal.pitch = FB => Pulses(h) = 1 /\ ShortPulses(h)
       /\ lastSignal.pitch = CB => Pulses(h) = 2 /\ ShortPulses(h)
       /\ lastSignal.pitch = CH => Pulses(h) = 3 /\ ShortPulses(h)
       /\ lastSignal.pitch = SL => Pulses(h) = 1 /\ LongPulses(h)
       /\ lastSignal.pitch = PO => Pulses(h) = 2 /\ LongPulses(h)
       /\ lastSignal.pitch < 5 => h = vibrateForPitch(lastSignal.pitch)
       /\ (~(lastSignal.pitch < 5) /\ lastSignal.pickoff > 0) =>
            Pulses(h) = 3 /\ RapidPulses(h)
       /\ (~(lastSignal.pitch < 5) /\ lastSignal.pickoff = 0
             /\ lastSignal.thirdSign > 0) =>
            Pulses(h) = 2 /\ LongPulses(h)

\* C25 witness: the T-Watch has drawn a curveball that also carries pickoff
\* 2 and third sign 3, and has played the curveball's two short pulses.
C25_Witness ==
  /\ DrawnOnWatch /\ lastSignal.type = 0 /\ lastSignal.pitch = CB
  /\ lastSignal.pickoff = 2 /\ lastSignal.thirdSign = 3
  /\ Pulses(display.haptic) = 2

\* C26: every render of a decoded record, on every receiver variant and for
\* every render intent, shows the record's sequence number.
C26_NumberAlwaysShown ==
  Drawn => << "number", lastSignal.number >> \in display.drawn

\* C27: for every record value the drawSignal of the T-Watch, the Heltec,
\* the Heltec Stick and the XIAO take the same render intent.
C27_SameIntentOnAllReceivers ==
  Drawn =>
    \A v \in Variants : drawSignal(v, lastSignal).intent = display.intent

\* C27 witness: a XIAO has drawn a record with no pitch, pickoff 2 and third
\* sign 3 as a pickoff.
C27_Witness ==
  /\ Drawn /\ variant = "XIAO" /\ lastSignal.type = 0
  /\ lastSignal.pitch = 255 /\ lastSignal.pickoff = 2
  /\ lastSignal.thirdSign = 3 /\ display.intent = "ShowPickoffOnly"

\* the record fields a render makes visible
FieldKinds == {"pitch", "zone", "pickoff", "third"}
FieldsShown(r) == Kinds(r) \cap FieldKinds

\* C28: for every record value, out-of-range ones included, the set of
\* record fields made visible (pitch name, zone digit, pickoff marker,
\* third-sign marker) is the same on all four receiver variants.
C28_SameFieldsOnAllReceivers ==
  Drawn =>
    \A v \in Variants :
      FieldsShown(drawSignal(v, lastSignal)) = FieldsShown(display)

\* C29: every record handed to the radio is 7 bytes long, with type, pitch,
\* zone, pickoff and third sign at offsets 0..4 and the 16-bit number at
\* offsets 5 and 6.
C29_SevenByteRecord ==
  \A i \in 1..Len(txFrames) :
    LET f == txFrames[i].frame
        b == StructBytes(f)
    IN /\ Len(b) = 7
       /\ << b[1], b[2], b[3], b[4], b[5] >>
            = << f.type, f.pitch, f.zone, f.pickoff, f.thirdSign >>
       /\ f.number \in {b[6] + 256 * b[7], 256 * b[6] + b[7]}

\* C30: every record that readData reports as read is drawn next, whatever
\* its number relative to the record drawn before it (lower, equal, or
\* with a gap), and what the display shows after the draw is the render of
\* that record: the most recently decoded record always wins.
C30_NoSequencingGuard ==
  [][/\ (pc = "read" /\ pc' # "read" /\ rxState' = "ok") => pc' = "draw"
     /\ (pc = "draw" /\ pc' # "draw") =>
          /\ pc' = "rearm"
          /\ display' = drawSignal(variant, lastSignal)
          /\ lastReceived' = millis]_vars

\* C30 witness: a record numbered 1 has been read and is about to be drawn
\* while the display shows the record numbered 3 that was drawn before it.
C30_Witness ==
  /\ pc = "draw" /\ rxState = "ok" /\ lastSignal.number = 1
  /\ lastSignal.pitch = FB /\ << "number", 3 >> \in display.drawn
  /\ display.intent = "ShowPickoffOnly"

----------------------------------------------------------------------------
(* Transmit errors, the notification flag, liveness *)

\* the lines printed by the last tap that report a record as sent
SentLines == { "Signal sent successfully", "Reset sent" }

\* C31: after every tap, a record handed to radio.transmit for which the
\* radio returned an error has a "Transmit failed" line printed for it, for
\* the Pitch record of Send and for the Reset record alike, and no line of
\* that tap reports the record as sent.
C31_TransmitErrorsSurfaced ==
  \A i \in 1..Len(txFrames) :
    ~txFrames[i].ok =>
      /\ i <= Len(txSerial)
      /\ txSerial[i] = "Transmit failed"
      /\ \A j \in 1..Len(txSerial) : txSerial[j] \notin SentLines

\* what loop() and the functions it calls write, apart from the flag
MainCycleState ==
  << lastSignal, lastReceived, display, haptic, rxState, pc, millis >>

\* C32: receivedFlag goes from false to true only in a step of the DIO1
\* handler, which writes nothing else that loop() reads or writes; it goes
\* from true to false only in the statement "receivedFlag = false", which
\* is the only way into readData; so a flag raised while the main cycle
\* reads, draws or restarts the receiver stays set until the next cycle's
\* clear.
C32_FlagDiscipline ==
  [][/\ (~receivedFlag /\ receivedFlag') =>
          (radioMode = "rx" /\ UNCHANGED MainCycleState)
     /\ (receivedFlag /\ ~receivedFlag') => (pc = "clear" /\ pc' = "read")
     /\ (pc # "read" /\ pc' = "read") => (pc = "clear" /\ ~receivedFlag')
     /\ (receivedFlag /\ pc \in {"read", "draw", "rearm", "idle", "delay"})
          => receivedFlag']_vars

\* C32 witness: a notification was raised after the clear, while a record
\* was read or drawn, and the flag is still set when the receiver is about
\* to be restarted.
C32_Witness ==
  /\ pc = "rearm" /\ rxState = "ok" /\ receivedFlag /\ needRearm

\* the clock has not reached the last cycle explored: another pass through
\* loop() follows the present one
WithinHorizon == millis < MaxTicks * ToClock(TickMs) \/ millis >= NearWrap

\* C33: on a receiver whose radio initialised, with the main cycle running
\* and startReceive taking effect: whenever receivedFlag is set the cycle
\* eventually clears it, and eventually the receiver has been restarted and
\* listens again; a radio that stopped listening, after a frame or after a
\* damaged one, eventually listens again.
C33_ReceptionLive ==
  /\ (rxReady /\ receivedFlag /\ WithinHorizon) ~> ~receivedFlag
  /\ (rxReady /\ receivedFlag /\ WithinHorizon)
       ~> (radioMode = "rx" /\ ~needRearm)
  /\ (rxReady /\ radioMode = "standby" /\ WithinHorizon) ~> radioMode = "rx"

\* C33 witness: a damaged frame was announced, the flag was consumed, and
\* the receiver listens again with no notification pending.
C33_Witness ==
  /\ rxReady /\ pc = "idle" /\ rxState = "err"
  /\ ~receivedFlag /\ ~needRearm /\ radioMode = "rx"

\* C34: every Pitch record that radio.transmit sent is rendered less than
\* 100 ms after the tap on SEND: the time the record is on the air, which
\* the receiver's readData and drawSignal can only follow, is below
\* 100000 microseconds.
C34_LatencyUnder100ms ==
  \A i \in 1..Len(txFrames) :
    (txFrames[i].ok /\ txFrames[i].frame.type = 0) =>
      TimeOnAirUs(Len(StructBytes(txFrames[i].frame))) < 100000

----------------------------------------------------------------------------
(* Transmitter invariants *)

\* no pitch, or one of the four pitches that have a counter
ScoredOrNone == {PITCH_NONE, FB, CB, CH, SL}

\* C35: in every transmitter state the selected pitch and the pitch kept for
\* undo are none or one of FB, CB, CH, SL, and stay so after a tap on any
\* pitch button; no record handed to the radio carries pitch byte 4; and a
\* pitch that Send counts is an index of the four-element counts array.
C35_PitchoutNeverSelected ==
  /\ state.pitch \in ScoredOrNone
  /\ state.lastPitch \in ScoredOrNone
  /\ \A p \in AllPitchTaps \cup TouchPoints : AfterTap(p).pitch \in ScoredOrNone
  /\ \A i \in 1..Len(txFrames) : txFrames[i].frame.pitch \in ScoredOrNone
  /\ DOMAIN state.counts = 0..3
  /\ (state.pitch # PITCH_NONE /\ state.pitch # PO)
        => state.pitch \in DOMAIN state.counts

\* C35 witness: a slider, the pitch with the highest index, has been sent
\* and counted.
C35_Witness ==
  /\ Len(txFrames) = 1 /\ txFrames[1].frame.type = 0
  /\ txFrames[1].frame.pitch = SL /\ state.counts[SL] = 1
  /\ state.lastPitch = SL

\* the sum of the four pitch counters
SumCounts(st) == st.counts[0] + st.counts[1] + st.counts[2] + st.counts[3]

\* the Sends since the last Reset that no pitch counter recorded
Uncounted(st) == st.signalCount - SumCounts(st)

\* C36: below the 16-bit wrap the sum of the four pitch counters never
\* exceeds the send count; the difference is 0 at startup and after a Reset,
\* stays what it was when a Send has a pitch selected, grows by 1 when a
\* Send has no pitch selected, and no other tap changes it: the sum equals
\* the send count exactly when every Send since the last Reset (or startup)
\* had a pitch selected.
C36_CountersSumToSends ==
  /\ Uncounted(state) >= 0
  /\ txpc = "setup" => Uncounted(state) = 0
  /\ \A p \in TouchPoints :
       Uncounted(AfterTap(p)) =
         IF inReset(p[1], p[2]) THEN 0
         ELSE IF inSend(p[1], p[2])
           THEN Uncounted(state) + (IF state.pitch = PITCH_NONE THEN 1 ELSE 0)
         ELSE Uncounted(state)

\* C36 witness: of two Sends since startup the first had no pitch selected
\* and the second a slider: the counters sum to 1, the send count is 2.
C36_Witness ==
  /\ state.signalCount = 2 /\ SumCounts(state) = 1 /\ state.counts[SL] = 1
  /\ state.lastPitch = SL /\ Uncounted(state) = 1

\* C37: on a transmitter whose radio initialised, every Send since startup
\* or the last Reset has handed one Pitch record to the radio, and the n-th
\* of them carries sequence number n (modulo 2^16): the first carries 1 and,
\* below the wrap, none carries 0.
C37_NthSendCarriesN ==
  (txpc = "loop" /\ loraReady) =>
    /\ Len(txSession) = state.signalCount
    /\ \A n \in 1..Len(txSession) :
         /\ txSession[n] = n % U16
         /\ n < U16 => txSession[n] # 0

\* C37 witness: after two Sends the session's records are numbered 1 and 2,
\* the second one sent with no pitch selected.
C37_Witness ==
  /\ loraReady /\ txSession = << 1, 2 >> /\ state.signalCount = 2
  /\ Len(txFrames) = 1 /\ txFrames[1].frame.number = 2
  /\ txFrames[1].frame.pitch = PITCH_NONE

\* C38: from every state the transmitter reaches, a tap handled with
\* loraReady false hands nothing to the radio, prints nothing and leaves
\* currentSignal alone, and leaves struct state exactly as the same tap
\* handled with loraReady true does: after SEND the selected pitch's counter
\* and the send count are one higher and the selection is empty, after RESET
\* the counters and the send count are 0.
C38_FailedRadioKeepsBookkeeping ==
  txpc = "loop" =>
    \A p \in TouchPoints, sendOk \in BOOLEAN, resetOk \in BOOLEAN :
      LET off == TouchResult(state, currentSignal, FALSE, p[1], p[2],
                             sendOk, resetOk)
          on  == TouchResult(state, currentSignal, TRUE, p[1], p[2],
                             sendOk, resetOk)
      IN /\ off.frames = <<>> /\ off.serial = <<>>
         /\ off.cur = currentSignal
         /\ off.state = on.state
         /\ inSend(p[1], p[2]) =>
              /\ off.state.signalCount = (state.signalCount + 1) % U16
              /\ \A i \in 0..3 :
                   off.state.counts[i] =
                     IF state.pitch = i THEN (state.counts[i] + 1) % U16
                     ELSE state.counts[i]
              /\ SelectionEmpty(off.state)
         /\ inReset(p[1], p[2]) =>
              /\ off.state.signalCount = 0
              /\ \A i \in 0..3 : off.state.counts[i] = 0

\* C38 witness: on a transmitter whose radio failed a fastball has been
\* sent: counted, selection cleared, nothing handed to the radio.
C38_Witness ==
  /\ txpc = "loop" /\ ~loraReady /\ state.signalCount = 1
  /\ state.counts[FB] = 1 /\ state.lastPitch = FB /\ SelectionEmpty(state)
  /\ txFrames = <<>> /\ currentSignal = ZeroSignal

----------------------------------------------------------------------------
(* Receiver: what the render intent depends on; the idle timer's stamp *)

\* the record that stands for all records with the same answers to
\* type = 1, pitch < 5, pickoff > 0 and thirdSign > 0
Representative(sig) ==
  [type      |-> IF sig.type = 1 THEN 1 ELSE 0,
   pitch     |-> IF sig.pitch < 5 THEN 0 ELSE 255,
   zone      |-> 0,
   pickoff   |-> IF sig.pickoff > 0 THEN 1 ELSE 0,
   thirdSign |-> IF sig.thirdSign > 0 THEN 1 ELSE 0,
   number    |-> 0]

\* C39: on every receiver the intent drawn for a record is the intent of
\* the representative of its answers to type = 1, pitch < 5, pickoff > 0
\* and thirdSign > 0, so records that agree on the four tests get the same
\* intent; a type byte other than 1 gives the intent of type 0 and a pitch
\* byte of 5 or more gives the intent of pitch byte 255.
C39_IntentFromFourTests ==
  Drawn =>
    /\ display.intent = drawSignal(variant, Representative(lastSignal)).intent
    /\ lastSignal.type # 1 =>
         display.intent
           = drawSignal(variant, [lastSignal EXCEPT !.type = 0]).intent
    /\ lastSignal.pitch >= 5 =>
         display.intent
           = drawSignal(variant, [lastSignal EXCEPT !.pitch = 255]).intent

\* C39 witness: a record with type byte 2, pitch byte 5, no pickoff and
\* third sign byte 255 has been drawn as a third sign.
C39_Witness ==
  /\ Drawn /\ lastSignal.type = 2 /\ lastSignal.pitch = 5
  /\ lastSignal.pickoff = 0 /\ lastSignal.thirdSign = 255
  /\ display.intent = "ShowThirdSignOnly"

\* C40: once drawSignal has drawn a decoded record and lastReceived has
\* been stamped, the idle timer is armed whatever millis() returned, before
\* or after the clock's wrap: lastReceived holds the time of the decode and
\* is not the 0 that stands for "no signal received".
C40_StampArmsTimer ==
  Drawn => (lastReceived = sinceDecode /\ lastReceived > 0)

====
